---- MODULE Spec2Model ----
(***************************************************************************)
(* Model of the easeOS web UI servers: src/webui/server.py (development    *)
(* and production mode) and src/dev-server.py.                             *)
(*                                                                         *)
(* The state is the process-wide INSTALL_PROGRESS record, the background   *)
(* simulate / simulate_install threads started by POST /api/install/start, *)
(* the progress file read by get_install_progress in production, and the   *)
(* last answers the client saw.  HTTPServer serves one request at a time,  *)
(* so every handler is one action; the daemon threads interleave with the  *)
(* handlers one published record at a time (a rebinding of the global name *)
(* INSTALL_PROGRESS is one atomic store).                                  *)
(***************************************************************************)
EXTENDS Integers, Sequences, FiniteSets, TLC

\* ------------------------------------------------------------------ bounds

\* How many install-start requests may be accepted in one behaviour (the
\* code has no limit; every accepted request starts a thread or a process).
MaxInstalls == 2

Threads == 1..MaxInstalls

\* ------------------------------------------------------- process variants

\* "dev":       webui/server.py with IS_DEV true  (server.py:57, 749)
\* "prod":      webui/server.py with IS_DEV false (server.py:777)
\* "devserver": dev-server.py
Modes == {"dev", "prod", "devserver"}

\* Python's None
None == "None"

\* --------------------------------------------------- credential validator

Upper == {"A","B","C","D","E","F","G","H","I","J","K","L","M",
          "N","O","P","Q","R","S","T","U","V","W","X","Y","Z"}

Digits == {"0","1","2","3","4","5","6","7","8","9"}

\* the punctuation class of the fifth rule's regular expression; "grave"
\* stands for the grave accent, which the TLA+ lexer does not take in a string
Symbols == {"!","@","#","$","%","^","&","*","(",")","_","+","-","=",
            "[","]","{","}",";","'",":","\"","\\","|",",",".","<",">",
            "/","?","~","grave"}

MinPasswordLength == 8

Chars(password) == {password[i] : i \in 1..Len(password)}

\* A password is a sequence of one-character strings.
validate_password_strength(password) ==
    IF Len(password) = 0 \/ Len(password) < MinPasswordLength
    THEN "Password must be at least 8 characters"
    ELSE IF " " \in Chars(password) \/ "\t" \in Chars(password)
    THEN "Password cannot contain spaces"
    ELSE IF Chars(password) \cap Upper = {}
    THEN "Password must contain at least 1 uppercase letter"
    ELSE IF Chars(password) \cap Digits = {}
    THEN "Password must contain at least 1 number"
    ELSE IF Chars(password) \cap Symbols = {}
    THEN "Password must contain at least 1 symbol (!@#$%^&* etc.)"
    ELSE None

\* ------------------------------------------------------- request inputs

Drives == {"", "/dev/sda"}

Usernames == {"", "admin"}

Passwords ==
    { <<>>,
      <<"P","a","s","s","w","0","r","d","!">>,
      <<"s","h","o","r","t","1","!">>,
      <<"p","a","s","s","w","o","r","d","1","!">>,
      <<"P","a","s","s","w","o","r","d","!">>,
      <<"P","a","s","s","w","o","r","d","1">>,
      <<"P","a","s","s"," ","w","o","r","d","1","!">>,
      <<"P","a","s","s","\t","w","0","r","d","!">> }

\* The field set of an install request after json.loads (and decryption).
InstallRequests ==
    [drive : Drives, username : Usernames, password : Passwords]

\* ------------------------------------------------------- install progress

\* INSTALL_PROGRESS as the module is loaded
IdleProgress ==
    [running |-> FALSE, progress |-> 0, stage |-> "idle", message |-> "",
     complete |-> FALSE, error |-> None]

\* simulate.stages of webui/server.py
SimulateStages ==
    << <<"preparing", 5, "Initializing...">>,
       <<"partitioning", 15, "Creating partitions...">>,
       <<"formatting", 25, "Formatting filesystem...">>,
       <<"mounting", 35, "Mounting partitions...">>,
       <<"cloning", 50, "Cloning easeOS...">>,
       <<"configuring", 65, "Generating configuration...">>,
       <<"installing", 80, "Installing NixOS...">>,
       <<"finalizing", 95, "Finishing up...">>,
       <<"complete", 100, "Installation complete!">> >>

\* simulate_install.stages of dev-server.py
SimulateInstallStages ==
    << <<"preparing", 5, "Initializing...">>,
       <<"partitioning", 15, "Creating partitions...">>,
       <<"formatting", 25, "Formatting filesystem...">>,
       <<"mounting", 35, "Mounting partitions...">>,
       <<"cloning", 45, "Cloning easeOS...">>,
       <<"configuring", 55, "Generating configuration...">>,
       <<"credentials", 65, "Setting up credentials...">>,
       <<"installing", 75, "Installing NixOS (simulated)...">>,
       <<"installing", 85, "Building system...">>,
       <<"finalizing", 95, "Finishing up...">>,
       <<"complete", 100, "Installation complete!">> >>

\* The record the loop body binds to INSTALL_PROGRESS for one stages entry.
\* StageRecord with complete set from the last of the stages before the end.
StageRecord_complete_early(s) ==
    [running |-> s[1] # "complete", stage |-> s[1], progress |-> s[2],
     message |-> s[3], complete |-> s[2] >= 95, error |-> None]

StageRecord_always_running(s) ==
    [running |-> TRUE, stage |-> s[1], progress |-> s[2],
     message |-> s[3], complete |-> s[1] = "complete", error |-> None]

StageRecord_never_complete(s) ==
    [running |-> TRUE, stage |-> s[1], progress |-> s[2],
     message |-> s[3], complete |-> FALSE, error |-> None]

StageRecord(s) ==
    [running |-> s[1] # "complete", stage |-> s[1], progress |-> s[2],
     message |-> s[3], complete |-> s[1] = "complete", error |-> None]

\* The record simulate_install binds before its loop.
StartingRecord ==
    [running |-> TRUE, stage |-> "preparing", progress |-> 0,
     message |-> "Starting installation...", complete |-> FALSE,
     error |-> None]

\* The records simulate_install (dev-server.py) stores, in program order.
simulate_install ==
    <<StartingRecord>> \o
    [i \in 1..Len(SimulateInstallStages) |->
        StageRecord(SimulateInstallStages[i])]

\* The records simulate (webui/server.py) stores, in program order.
simulate ==
    [i \in 1..Len(SimulateStages) |-> StageRecord(SimulateStages[i])]

\* The thread function of the server running in mode m.
Program(m) == IF m = "devserver" THEN simulate_install ELSE simulate

\* ------------------------------------------------------- AES-256-GCM

\* What a call gave: a value it returned, None it returned, or an exception
\* it raised; NotCalled before the call.
Returned(v) == [kind |-> "returned", value |-> v, error |-> None]

ReturnedNone == [kind |-> "none", value |-> <<>>, error |-> None]

Raised(e) == [kind |-> "raised", value |-> <<>>, error |-> e]

NotCalled == [kind |-> "unset", value |-> <<>>, error |-> None]

RECURSIVE Sum(_)
Sum(bytes) == IF Len(bytes) = 0 THEN 0 ELSE bytes[1] + Sum(Tail(bytes))

\* str.encode('utf-8') of one code point below U+10000 (not a surrogate)
utf8_bytes(cp) ==
    IF cp < 128 THEN <<cp>>
    ELSE IF cp < 2048 THEN <<192 + (cp \div 64), 128 + (cp % 64)>>
    ELSE <<224 + (cp \div 4096), 128 + ((cp \div 64) % 64), 128 + (cp % 64)>>

\* str.encode('utf-8'): a string is the sequence of its code points
RECURSIVE utf8_encode(_)
utf8_encode(str) ==
    IF Len(str) = 0 THEN <<>> ELSE utf8_bytes(str[1]) \o utf8_encode(Tail(str))

\* A continuation byte 10xxxxxx at index i of bytes.
Continuation(bytes, i) ==
    i <= Len(bytes) /\ bytes[i] >= 128 /\ bytes[i] < 192

\* bytes.decode('utf-8'): the code points, or UnicodeDecodeError
RECURSIVE utf8_decode(_)
utf8_decode(bytes) ==
    IF Len(bytes) = 0 THEN Returned(<<>>)
    ELSE LET b == bytes[1]
             n == IF b < 128 THEN 1
                  ELSE IF b >= 194 /\ b < 224 THEN 2
                  ELSE IF b >= 224 /\ b < 240 THEN 3
                  ELSE 0
             ok == /\ n > 0
                   /\ \A i \in 2..n : Continuation(bytes, i)
             cp == IF n = 1 THEN b
                   ELSE IF n = 2 THEN (b - 192) * 64 + (bytes[2] - 128)
                   ELSE (b - 224) * 4096 + (bytes[2] - 128) * 64 + (bytes[3] - 128)
             rest == IF ok THEN utf8_decode(SubSeq(bytes, n + 1, Len(bytes)))
                     ELSE Raised("UnicodeDecodeError")
         IN  IF ~ok \/ (n = 3 /\ cp < 2048) \/ rest.kind = "raised"
             THEN Raised("UnicodeDecodeError")
             ELSE Returned(<<cp>> \o rest.value)

\* '=' of the base64 alphabet; the other characters are their values 0..63
Pad == 64

\* base64.b64encode
RECURSIVE b64encode(_)
b64encode(bytes) ==
    IF Len(bytes) = 0 THEN <<>>
    ELSE IF Len(bytes) = 1
    THEN <<bytes[1] \div 4, (bytes[1] % 4) * 16, Pad, Pad>>
    ELSE IF Len(bytes) = 2
    THEN <<bytes[1] \div 4, (bytes[1] % 4) * 16 + (bytes[2] \div 16),
           (bytes[2] % 16) * 4, Pad>>
    ELSE <<bytes[1] \div 4, (bytes[1] % 4) * 16 + (bytes[2] \div 16),
           (bytes[2] % 16) * 4 + (bytes[3] \div 64), bytes[3] % 64>>
         \o b64encode(SubSeq(bytes, 4, Len(bytes)))

\* base64.b64decode of text whose length is a multiple of four
RECURSIVE b64decode(_)
b64decode(text) ==
    IF Len(text) = 0 THEN <<>>
    ELSE (IF text[3] = Pad
          THEN <<text[1] * 4 + (text[2] \div 16)>>
          ELSE IF text[4] = Pad
          THEN <<text[1] * 4 + (text[2] \div 16),
                 (text[2] % 16) * 16 + (text[3] \div 4)>>
          ELSE <<text[1] * 4 + (text[2] \div 16),
                 (text[2] % 16) * 16 + (text[3] \div 4),
                 (text[3] % 4) * 64 + text[4]>>)
         \o b64decode(SubSeq(text, 5, Len(text)))

\* b'easeOS-wifi-salt'
SALT == <<101, 97, 115, 101, 79, 83, 45, 119, 105, 102, 105, 45, 115, 97, 108, 116>>

\* dklen of the derived key, in bytes
KeyLength == 32

\* hashlib.pbkdf2_hmac('sha256', ...): a digest of secret and salt stands
\* for the derived bytes
derive_aes_key(secret) ==
    [j \in 1..KeyLength |->
        (7 * Sum(utf8_encode(secret)) + Sum(SALT) + j) % 256]

\* The length of the nonce aes_encrypt draws and aes_decrypt splits off.
NonceLength == 12

\* AESGCM: the tag it appends, and the shortest nonce it takes.
TagLength == 16

MinNonceLength == 8

MaxNonceLength == 128

\* The key stream byte AES in counter mode adds to byte i of the data.
Stream(key, iv, i) == (Sum(key) + Sum(iv) + i) % 256

\* The authentication tag over nonce and ciphertext under key.
Tag(key, iv, ct) ==
    [j \in 1..TagLength |-> (Sum(key) + 3 * Sum(iv) + Sum(ct) + j) % 256]

\* AESGCM(key).encrypt(iv, data, None): ciphertext, then the tag
AESGCM_encrypt(key, iv, data) ==
    LET ct == [i \in 1..Len(data) |-> (data[i] + Stream(key, iv, i)) % 256]
    IN  ct \o Tag(key, iv, ct)

\* AESGCM(key).decrypt(iv, data, None)
AESGCM_decrypt(key, iv, data) ==
    IF Len(iv) < MinNonceLength \/ Len(iv) > MaxNonceLength
    THEN Raised("ValueError")
    ELSE IF Len(data) < TagLength
    THEN Raised("InvalidTag")
    ELSE LET ct == SubSeq(data, 1, Len(data) - TagLength)
             tag == SubSeq(data, Len(data) - TagLength + 1, Len(data))
         IN  IF tag # Tag(key, iv, ct)
             THEN Raised("InvalidTag")
             ELSE Returned([i \in 1..Len(ct) |->
                              (ct[i] + 256 - Stream(key, iv, i)) % 256])

\* ------------------------------------------------------------------ files

\* The files the handlers write.  A file's content is the set of its
\* <<key, value>> pairs as json.dump writes them; a file of plain text has
\* the one key "".
Paths == {"/tmp/easyos-install-config.json", "/tmp/easyos-password-hash",
          "/tmp/easyos-encryption-password", "/etc/easy/credentials.json",
          "CONFIG_FILE"}

\* ------------------------------------------------------------------ state

\* SESSION_KEY = secrets.token_urlsafe(12)[:16]
SecretLength == 16

Secrets == {[i \in 1..SecretLength |-> 97], [i \in 1..SecretLength |-> 64 + i]}

\* The key of a process whose session is not followed.
PinnedKey == [i \in 1..SecretLength |-> 97]

VARIABLES
    mode,              \* which server and environment this process is
    INSTALL_PROGRESS,  \* the module global of both servers
    status,            \* per background thread: "none", "alive", "done", "crashed"
    pc,                \* per thread: index in Program(mode) of its next store
    published,         \* per thread: the Program(mode) entries it has stored, in order
    launched,          \* production: webinstall.sh processes started
    PROGRESS_FILE,     \* production: MUTABLE_DIR/install-progress.json
    lastResp,          \* what the server answered to the latest request
    HAS_CRYPTO,        \* whether the import of AESGCM succeeded
    files,             \* what the handlers have written to disk, per path
    clock,             \* time.time() in whole seconds
    issued,            \* the installId values returned so far, in order
    pwInput,           \* the argument of a call of validate_password_strength
    pwResult,          \* what that call returned
    plaintext,         \* the data argument of aes_encrypt
    key_string,        \* the key_string argument of aes_encrypt / aes_decrypt
    encrypted_b64,     \* the envelope: what aes_encrypt returned, or an altered one
    envelope,          \* how the envelope came about: "none", "sealed", "altered", "short"
    decrypted,         \* what aes_decrypt returned or raised
    toolOutput,        \* what the external probe (nmcli, lsblk) gave the function
    probeResult,       \* what _scan_wifi / _detect_storage returned
    SESSION_KEY        \* the module global SESSION_KEY, as code points

\* The variables of the install progress record and its tasks.
progressVars == <<mode, INSTALL_PROGRESS, status, pc, published, launched,
                  PROGRESS_FILE, lastResp>>

\* What the request handlers leave behind besides the progress record.
apiVars == <<HAS_CRYPTO, SESSION_KEY, files, clock, issued>>

\* The arguments and results of the module-level functions.
fnVars == <<pwInput, pwResult, plaintext, key_string, encrypted_b64,
            envelope, decrypted>>

\* The input and the result of the hardware probes.
probeVars == <<toolOutput, probeResult>>

vars == <<progressVars, apiVars, fnVars, probeVars>>

NoFile == [exists |-> FALSE, parses |-> FALSE, content |-> IdleProgress]

\* No request has been answered yet.
NoResp == [kind |-> "none"]

\* No probe has run yet.
NoProbe == [kind |-> "none"]

\* No file written yet.
NoFiles == [path \in Paths |-> {}]

\* The part of the state a specification does not follow stays as it is here.
ApiIdle ==
    /\ HAS_CRYPTO = TRUE
    /\ SESSION_KEY = PinnedKey
    /\ files = NoFiles
    /\ clock = 0
    /\ issued = <<>>

FnIdle ==
    /\ pwInput = <<>>
    /\ pwResult = "unset"
    /\ plaintext = <<>>
    /\ key_string = <<>>
    /\ encrypted_b64 = NotCalled
    /\ envelope = "none"
    /\ decrypted = NotCalled
    /\ toolOutput = NoProbe
    /\ probeResult = NotCalled

ProgressInit ==
    /\ mode \in Modes
    /\ INSTALL_PROGRESS = IdleProgress
    /\ status = [t \in Threads |-> "none"]
    /\ pc = [t \in Threads |-> 1]
    /\ published = [t \in Threads |-> <<>>]
    /\ launched = 0
    /\ PROGRESS_FILE = NoFile
    /\ lastResp = NoResp

Init ==
    /\ ProgressInit
    /\ ApiIdle
    /\ FnIdle

\* A thread whose function has not returned.
Alive(t) == status[t] = "alive"

\* An install whose task has been started and has not yet stored its last
\* record.
InProgress(t) == Alive(t) /\ pc[t] <= Len(Program(mode))

\* ------------------------------------------------ POST /api/install/start

\* Validate without the call of validate_password_strength.
Validate_no_strength_check(req) ==
    IF req.drive = ""
    THEN "No drive specified"
    ELSE IF req.username = "" \/ Len(req.password) = 0
    THEN "Username and password required"
    ELSE None

\* Validate with the first two checks in the other order.
Validate_credentials_first(req) ==
    IF req.username = "" \/ Len(req.password) = 0
    THEN "Username and password required"
    ELSE IF req.drive = ""
    THEN "No drive specified"
    ELSE validate_password_strength(req.password)

\* The checks of _handle_install_start / do_POST, in the order of the code:
\* the error message of the first one that fails, None when all pass.
Validate(req) ==
    IF req.drive = ""
    THEN "No drive specified"
    ELSE IF req.username = "" \/ Len(req.password) = 0
    THEN "Username and password required"
    ELSE validate_password_strength(req.password)

\* return {'success': False, 'error': msg}, sent with status 400
\* (dev-server.py sends {'error': msg}, which carries no success either)
Reject(msg) ==
    /\ lastResp' = [kind |-> "start", code |-> 400, success |-> FALSE,
                    error |-> msg]
    /\ UNCHANGED <<mode, INSTALL_PROGRESS, status, pc, published, launched,
                   PROGRESS_FILE>>

\* return {'success': True, 'started': True, ...}, sent with status 202
Accept ==
    lastResp' = [kind |-> "start", code |-> 202, success |-> TRUE,
                 error |-> None]

\* threading.Thread(target=simulate, daemon=True).start()
StartThread ==
    \E t \in Threads :
        /\ status[t] = "none"
        /\ \A u \in Threads : u < t => status[u] # "none"
        /\ status' = [status EXCEPT ![t] = "alive"]
        /\ UNCHANGED <<pc, published>>

\* subprocess.Popen(['/etc/easy/webinstall.sh'], ...)
LaunchInstaller ==
    /\ launched < MaxInstalls
    /\ launched' = launched + 1

\* A variant whose handler joins the thread before it answers.
StartInstallAfter_joining(err) ==
    IF err # None
    THEN Reject(err)
    ELSE /\ Accept
         /\ IF mode = "prod"
            THEN LaunchInstaller /\ UNCHANGED <<status, pc, published, INSTALL_PROGRESS>>
            ELSE /\ \E t \in Threads :
                       /\ status[t] = "none"
                       /\ \A u \in Threads : u < t => status[u] # "none"
                       /\ status' = [status EXCEPT ![t] = "done"]
                       /\ pc' = [pc EXCEPT ![t] = Len(Program(mode)) + 1]
                       /\ published' = [published EXCEPT ![t] =
                              [i \in 1..Len(Program(mode)) |-> i]]
                 /\ INSTALL_PROGRESS' = Program(mode)[Len(Program(mode))]
                 /\ UNCHANGED launched
         /\ UNCHANGED <<mode, PROGRESS_FILE>>

\* The handler from the point where validation has answered err.
StartInstallAfter(err) ==
    IF err # None
    THEN Reject(err)
    ELSE /\ Accept
         /\ IF mode = "prod"
            THEN LaunchInstaller /\ UNCHANGED <<status, pc, published>>
            ELSE StartThread /\ UNCHANGED launched
         /\ UNCHANGED <<mode, INSTALL_PROGRESS, PROGRESS_FILE>>

StartInstall(req) == StartInstallAfter(Validate(req))

\* The answers validation gives over the request inputs of the model.
ValidationResults == {Validate(req) : req \in InstallRequests}

\* ------------------------------------------------- the background thread

\* ThreadStep with an update in place: stage and progress are assigned into
\* the dictionary that polls read, the other keys are left for later.
ThreadStep_in_place(t) ==
    /\ InProgress(t)
    /\ INSTALL_PROGRESS' =
           [INSTALL_PROGRESS EXCEPT !.stage = Program(mode)[pc[t]].stage,
                                    !.progress = Program(mode)[pc[t]].progress]
    /\ published' = [published EXCEPT ![t] = Append(@, pc[t])]
    /\ pc' = [pc EXCEPT ![t] = @ + 1]
    /\ UNCHANGED <<mode, status, launched, PROGRESS_FILE, lastResp>>
    /\ UNCHANGED <<apiVars, fnVars, probeVars>>

\* ThreadStep with a loop that starts over after its last entry.
ThreadStep_restarts(t) ==
    /\ Alive(t)
    /\ pc[t] <= Len(Program(mode))
    /\ INSTALL_PROGRESS' = Program(mode)[pc[t]]
    /\ published' = [published EXCEPT ![t] = Append(@, pc[t])]
    /\ pc' = [pc EXCEPT ![t] = IF @ = Len(Program(mode)) THEN 1 ELSE @ + 1]
    /\ UNCHANGED <<mode, status, launched, PROGRESS_FILE, lastResp>>
    /\ UNCHANGED <<apiVars, fnVars, probeVars>>

\* One iteration of the for loop (for dev-server.py also the store before
\* the loop): bind INSTALL_PROGRESS to the next record, then sleep.
ThreadStep(t) ==
    /\ InProgress(t)
    /\ INSTALL_PROGRESS' = Program(mode)[pc[t]]
    /\ published' = [published EXCEPT ![t] = Append(@, pc[t])]
    /\ pc' = [pc EXCEPT ![t] = @ + 1]
    /\ UNCHANGED <<mode, status, launched, PROGRESS_FILE, lastResp>>
    /\ UNCHANGED <<apiVars, fnVars, probeVars>>

\* The thread function returns after the sleep that follows the last store.
ThreadExit(t) ==
    /\ Alive(t)
    /\ pc[t] = Len(Program(mode)) + 1
    /\ status' = [status EXCEPT ![t] = "done"]
    /\ UNCHANGED <<mode, INSTALL_PROGRESS, pc, published, launched,
                   PROGRESS_FILE, lastResp>>
    /\ UNCHANGED <<apiVars, fnVars, probeVars>>

\* An exception raised inside simulate / simulate_install: neither function
\* has a try block, so the thread ends and nothing else is touched.
ThreadFail(t) ==
    /\ Alive(t)
    /\ status' = [status EXCEPT ![t] = "crashed"]
    /\ UNCHANGED <<mode, INSTALL_PROGRESS, pc, published, launched,
                   PROGRESS_FILE, lastResp>>
    /\ UNCHANGED <<apiVars, fnVars, probeVars>>

\* ------------------------------------------------ GET /api/install/status

\* get_install_progress without the read of the progress file.
get_install_progress_memory_only == INSTALL_PROGRESS

\* if not IS_DEV and os.path.exists(PROGRESS_FILE): return json.load(f),
\* with any exception of the read swallowed; return INSTALL_PROGRESS.
get_install_progress ==
    IF mode = "prod" /\ PROGRESS_FILE.exists /\ PROGRESS_FILE.parses
    THEN PROGRESS_FILE.content
    ELSE INSTALL_PROGRESS

\* The answer carries the record; during is not sent: it notes which
\* installs were in progress when the record was read.
Poll ==
    /\ lastResp' = [kind |-> "poll", code |-> 200,
                    body |-> get_install_progress,
                    during |-> {t \in Threads : InProgress(t)}]
    /\ UNCHANGED <<mode, INSTALL_PROGRESS, status, pc, published, launched,
                   PROGRESS_FILE>>
    /\ UNCHANGED <<apiVars, fnVars, probeVars>>

\* ------------------------------------------- the external install script

\* What /etc/easy/webinstall.sh may leave in the progress file: a stage
\* record, or text that json.load does not parse.
FileContents ==
    {[exists |-> TRUE, parses |-> FALSE, content |-> IdleProgress]} \cup
    {[exists |-> TRUE, parses |-> TRUE, content |-> StageRecord(SimulateStages[i])]
        : i \in 1..Len(SimulateStages)}

InstallScriptWrite ==
    /\ mode = "prod"
    /\ launched > 0
    /\ \E f \in FileContents : PROGRESS_FILE' = f
    /\ UNCHANGED <<mode, INSTALL_PROGRESS, status, pc, published, launched,
                   lastResp>>
    /\ UNCHANGED <<apiVars, fnVars, probeVars>>

\* ----------------------------------------------------------- behaviours

\* Spec follows the progress record and its tasks: what a start writes to
\* disk and the id it returns are followed in ApiSpec.
Next ==
    \/ \E err \in ValidationResults :
          StartInstallAfter(err) /\ UNCHANGED <<apiVars, fnVars, probeVars>>
    \/ \E t \in Threads : ThreadStep(t)
    \/ \E t \in Threads : ThreadExit(t)
    \/ Poll
    \/ InstallScriptWrite

Spec == Init /\ [][Next]_vars

\* The same with the fault of a thread dying from an exception.
FaultNext ==
    \/ Next
    \/ \E t \in Threads : ThreadFail(t)

FaultSpec == Init /\ [][FaultNext]_vars

\* The threads are scheduled: a thread that can run eventually does.
FairSpec ==
    /\ Spec
    /\ \A t \in Threads : WF_vars(ThreadStep(t)) /\ WF_vars(ThreadExit(t))

\* --------------------------------------------------------------- claims

\* The fields of a request that validation rejects: an empty drive, an empty
\* username or password, or a password that fails the strength policy.
Invalid(req) ==
    \/ req.drive = ""
    \/ req.username = ""
    \/ req.password = <<>>
    \/ validate_password_strength(req.password) # None

\* The state the install-start handler must leave alone when it rejects.
installState == <<INSTALL_PROGRESS, status, pc, published, launched,
                  PROGRESS_FILE>>

\* C1: an install-start request that arrives while INSTALL_PROGRESS.running
\* is true is answered with a failure, and it changes neither the record nor
\* the set of background tasks.
C1_RejectedWhileRunning ==
    [][\A req \in InstallRequests :
          (INSTALL_PROGRESS.running /\ StartInstall(req))
              => (~lastResp'.success /\ UNCHANGED installState)]_vars

\* C2: in every reachable state at most one background install task is
\* alive with stores to INSTALL_PROGRESS still to make.
C2_AtMostOneTask ==
    Cardinality({t \in Threads : InProgress(t)}) <= 1

\* C3: of two successive status polls made while one and the same install is
\* in progress, the later returns a progress value at least the earlier's.
C3_PollsMonotone ==
    [][(Poll /\ lastResp.kind = "poll"
             /\ lastResp.during \cap lastResp'.during # {})
          => lastResp'.body.progress >= lastResp.body.progress]_vars

\* C4: the record in INSTALL_PROGRESS, and every record a status poll has
\* returned from it, never has complete and running both true.
C4_NeverCompleteAndRunning ==
    /\ ~(INSTALL_PROGRESS.complete /\ INSTALL_PROGRESS.running)
    /\ (lastResp.kind = "poll" /\ mode # "prod")
          => ~(lastResp.body.complete /\ lastResp.body.running)

\* C4 witness: an install has run to its end and a poll has returned the
\* complete record.
C4_Witness ==
    /\ lastResp.kind = "poll"
    /\ mode # "prod"
    /\ lastResp.body.complete
    /\ INSTALL_PROGRESS.complete

\* The stage sequence of the install state machine as the claim gives it.
StageSequence ==
    <<"preparing", "partitioning", "formatting", "mounting", "cloning",
      "configuring", "credentials", "installing", "finalizing", "complete">>

StageIndex(name) == CHOOSE i \in 1..Len(StageSequence) : StageSequence[i] = name

\* The stage names one task has stored, in order.
StagesOf(t) ==
    [i \in 1..Len(published[t]) |-> Program(mode)[published[t][i]].stage]

\* C5: the stage values one task stores are those of StageSequence in that
\* order: the first is preparing and each next one is the same stage again
\* or the stage that follows it, none skipped.
C5_StagesInOrder ==
    \A t \in Threads :
        /\ Len(StagesOf(t)) > 0 => StagesOf(t)[1] = "preparing"
        /\ \A i \in 1..(Len(StagesOf(t)) - 1) :
              \/ StagesOf(t)[i + 1] = StagesOf(t)[i]
              \/ StageIndex(StagesOf(t)[i + 1]) = StageIndex(StagesOf(t)[i]) + 1

\* C6: once an install-start has been accepted and its task runs, the record
\* eventually is the complete one: stage complete, progress 100, complete
\* true, running false.
C6_EventuallyComplete ==
    (\E t \in Threads : Alive(t))
        ~> (/\ INSTALL_PROGRESS.stage = "complete"
            /\ INSTALL_PROGRESS.progress = 100
            /\ INSTALL_PROGRESS.complete
            /\ ~INSTALL_PROGRESS.running)

\* C6 witness: the latest request was an accepted install-start and the
\* record has since become the complete one.
C6_Witness ==
    /\ lastResp.kind = "start"
    /\ lastResp.success
    /\ \E t \in Threads : status[t] = "done"
    /\ INSTALL_PROGRESS.stage = "complete"
    /\ INSTALL_PROGRESS.progress = 100

\* C7 as claimed: once INSTALL_PROGRESS.complete is true no step changes
\* the record again.
C7_CompleteIsTerminal ==
    [][INSTALL_PROGRESS.complete => INSTALL_PROGRESS' = INSTALL_PROGRESS]_vars

\* The task t has made the last store of its program.
Finished(t) == \E i \in 1..Len(published[t]) : published[t][i] = Len(Program(mode))

\* C7 as amended: complete is terminal for the install that reached it.  A
\* task that has stored its last record stores nothing more, and while the
\* record is complete no request handler changes it: it changes only by
\* the next store of the task of another install that is still in progress.
C7_CompleteTerminalPerInstall ==
    [][/\ \A t \in Threads : Finished(t) => published'[t] = published[t]
       /\ (INSTALL_PROGRESS.complete /\ INSTALL_PROGRESS' # INSTALL_PROGRESS)
             => \E t \in Threads :
                   /\ InProgress(t)
                   /\ ~Finished(t)
                   /\ published'[t] = Append(published[t], pc[t])
                   /\ INSTALL_PROGRESS' = Program(mode)[pc[t]]]_vars

\* C7 witness: the record is complete, its task has returned, and a status
\* poll made afterwards has returned the complete record.
C7_Witness ==
    /\ INSTALL_PROGRESS.complete
    /\ \E t \in Threads : status[t] = "done" /\ Finished(t)
    /\ lastResp.kind = "poll"
    /\ lastResp.during = {}
    /\ lastResp.body.complete

\* C8: when a background task dies of an internal error the record becomes
\* running false, complete false, error set, and that task stores no later
\* stage.
C8_FailureIsRecorded ==
    [][\A t \in Threads :
          /\ ThreadFail(t)
                => (/\ ~INSTALL_PROGRESS'.running
                    /\ ~INSTALL_PROGRESS'.complete
                    /\ INSTALL_PROGRESS'.error # None)
          /\ status[t] = "crashed" => published'[t] = published[t]]_vars

\* C9: an install-start request that validation rejects starts no task and
\* no installer, and leaves INSTALL_PROGRESS (and the progress file) as it
\* was; from the initial state the stage stays idle.
C9_RejectedChangesNothing ==
    [][\A req \in InstallRequests :
          (StartInstall(req) /\ Invalid(req))
              => (/\ ~lastResp'.success
                  /\ UNCHANGED installState
                  /\ INSTALL_PROGRESS.stage = "idle"
                        => INSTALL_PROGRESS'.stage = "idle")]_vars

\* C9 witness: a request with a password that has no digit has been
\* rejected and the record is still the idle one.
C9_Witness ==
    /\ lastResp.kind = "start"
    /\ ~lastResp.success
    /\ lastResp.error = "Password must contain at least 1 number"
    /\ INSTALL_PROGRESS = IdleProgress
    /\ \A t \in Threads : status[t] = "none"

\* C10: install-start answers success only when drive, username and
\* password are all non-empty; an empty drive is answered 'No drive
\* specified'; with a drive, an empty username or password is answered
\* 'Username and password required'.
C10_RequiredFields ==
    [][\A req \in InstallRequests :
          StartInstall(req)
              => (/\ lastResp'.success
                        => (/\ req.drive # ""
                            /\ req.username # ""
                            /\ req.password # <<>>)
                  /\ req.drive = ""
                        => (/\ ~lastResp'.success
                            /\ lastResp'.error = "No drive specified")
                  /\ (req.drive # "" /\ (req.username = "" \/ req.password = <<>>))
                        => (/\ ~lastResp'.success
                            /\ lastResp'.error = "Username and password required"))]_vars

\* C10 witness: a request with a drive and no username has been answered
\* 'Username and password required'.
C10_Witness ==
    /\ lastResp.kind = "start"
    /\ ~lastResp.success
    /\ lastResp.code = 400
    /\ lastResp.error = "Username and password required"

\* ------------------------------------- validate_password_strength, called

\* Lengths of the run of lower-case letters a password input starts with.
FillerLengths == {0, 2, 8}

\* The characters a password input may have after that run, each at most once.
ExtraChars == <<" ", "\t", "\n", "\r", "A", "1", "!">>

\* The entries of seq whose index is in keep, in order.
RECURSIVE Pick(_, _, _)
Pick(seq, keep, i) ==
    IF i > Len(seq) THEN <<>>
    ELSE (IF i \in keep THEN <<seq[i]>> ELSE <<>>) \o Pick(seq, keep, i + 1)

\* The passwords the validator is called with.
PasswordInputs ==
    {[i \in 1..n |-> "a"] \o Pick(ExtraChars, keep, 1) :
        n \in FillerLengths, keep \in SUBSET (1..Len(ExtraChars))}

\* The function is the same text in both server files: one process is followed.
ValidatorInit ==
    /\ ProgressInit
    /\ mode = "dev"
    /\ ApiIdle
    /\ pwInput \in PasswordInputs
    /\ pwResult = "unset"
    /\ plaintext = <<>>
    /\ key_string = <<>>
    /\ encrypted_b64 = NotCalled
    /\ envelope = "none"
    /\ decrypted = NotCalled
    /\ toolOutput = NoProbe
    /\ probeResult = NotCalled

\* pwd_error = validate_password_strength(password)
CallValidator ==
    /\ pwResult = "unset"
    /\ pwResult' = validate_password_strength(pwInput)
    /\ UNCHANGED <<probeVars, progressVars, apiVars, pwInput, plaintext, key_string,
                   encrypted_b64, envelope, decrypted>>

ValidatorNext == CallValidator

ValidatorSpec == ValidatorInit /\ [][ValidatorNext]_vars

\* The whitespace characters of the password inputs.
Whitespace == {" ", "\t", "\n", "\r"}

\* The five rules as the policy states them, in its order, and the message
\* of the first one a password fails.
FirstFailingRule(p) ==
    IF Len(p) < 8
    THEN "Password must be at least 8 characters"
    ELSE IF Chars(p) \cap Whitespace # {}
    THEN "Password cannot contain spaces"
    ELSE IF Chars(p) \cap Upper = {}
    THEN "Password must contain at least 1 uppercase letter"
    ELSE IF Chars(p) \cap Digits = {}
    THEN "Password must contain at least 1 number"
    ELSE IF Chars(p) \cap Symbols = {}
    THEN "Password must contain at least 1 symbol (!@#$%^&* etc.)"
    ELSE None

\* C19: validate_password_strength returns the message of the first rule,
\* in the order length, whitespace, uppercase, digit, symbol, that the
\* password fails, and None exactly when it fails none.
C19_FirstFailingRule ==
    pwResult # "unset" => pwResult = FirstFailingRule(pwInput)

\* C20: validate_password_strength rejects every password of eight or more
\* characters that has a whitespace character in it.
C20_WhitespaceRejected ==
    (/\ pwResult # "unset"
     /\ Len(pwInput) >= 8
     /\ Chars(pwInput) \cap Whitespace # {})
        => pwResult # None

\* ------------------------------------------ aes_encrypt and aes_decrypt

\* aes_encrypt that leaves the nonce out of what it returns.
aes_encrypt_without_iv(data, k, iv) ==
    IF ~HAS_CRYPTO THEN ReturnedNone
    ELSE Returned(b64encode(
             AESGCM_encrypt(derive_aes_key(k), iv, utf8_encode(data))))

\* iv is the value secrets.token_bytes(12) gave this call.
aes_encrypt(data, k, iv) ==
    IF ~HAS_CRYPTO THEN ReturnedNone
    ELSE Returned(b64encode(
             iv \o AESGCM_encrypt(derive_aes_key(k), iv, utf8_encode(data))))

\* aes_decrypt with the decryption in a try block that gives '' on failure.
aes_decrypt_swallowing(b64, k) ==
    IF ~HAS_CRYPTO THEN ReturnedNone
    ELSE LET combined == b64decode(b64)
             iv == SubSeq(combined, 1,
                          IF Len(combined) < NonceLength THEN Len(combined)
                          ELSE NonceLength)
             ciphertext == SubSeq(combined, NonceLength + 1, Len(combined))
             opened == AESGCM_decrypt(derive_aes_key(k), iv, ciphertext)
         IN  IF opened.kind = "raised" THEN Returned(<<>>)
             ELSE utf8_decode(opened.value)

aes_decrypt(b64, k) ==
    IF ~HAS_CRYPTO THEN ReturnedNone
    ELSE LET combined == b64decode(b64)
             iv == SubSeq(combined, 1,
                          IF Len(combined) < NonceLength THEN Len(combined)
                          ELSE NonceLength)
             ciphertext == SubSeq(combined, NonceLength + 1, Len(combined))
             opened == AESGCM_decrypt(derive_aes_key(k), iv, ciphertext)
         IN  IF opened.kind = "raised" THEN opened
             ELSE utf8_decode(opened.value)

\* The longest plaintext, in code points.
MaxPlaintextLength == 2

\* A, e with acute accent, the euro sign: one, two and three bytes in UTF-8
CodePoints == {65, 233, 8364}

Plaintexts ==
    UNION {[1..n -> CodePoints] : n \in 0..MaxPlaintextLength}

\* values of secrets.token_bytes(12)
Nonces == {[i \in 1..NonceLength |-> 0], [i \in 1..NonceLength |-> (17 * i) % 256]}

\* What is added to a byte to alter it.
Deltas == {1, 128, 255}

\* The function is the same text in both server files: one process is followed.
CryptoInit ==
    /\ ProgressInit
    /\ mode = "dev"
    /\ HAS_CRYPTO \in BOOLEAN
    /\ SESSION_KEY = PinnedKey
    /\ files = NoFiles
    /\ clock = 0
    /\ issued = <<>>
    /\ pwInput = <<>>
    /\ pwResult = "unset"
    /\ plaintext \in Plaintexts
    /\ key_string \in Secrets
    /\ encrypted_b64 = NotCalled
    /\ envelope = "none"
    /\ decrypted = NotCalled
    /\ toolOutput = NoProbe
    /\ probeResult = NotCalled

\* encrypted = aes_encrypt(data, SESSION_KEY)
Seal ==
    /\ envelope = "none"
    /\ \E iv \in Nonces : encrypted_b64' = aes_encrypt(plaintext, key_string, iv)
    /\ envelope' = IF HAS_CRYPTO THEN "sealed" ELSE "unavailable"
    /\ UNCHANGED <<probeVars, progressVars, apiVars, pwInput, pwResult, plaintext,
                   key_string, decrypted>>

\* On its way back one byte of the ciphertext or of the tag is altered.
Alter ==
    /\ envelope = "sealed"
    /\ decrypted = NotCalled
    /\ LET combined == b64decode(encrypted_b64.value)
       IN  \E i \in (NonceLength + 1)..Len(combined), d \in Deltas :
              encrypted_b64' = Returned(b64encode(
                  [combined EXCEPT ![i] = (@ + d) % 256]))
    /\ envelope' = "altered"
    /\ UNCHANGED <<probeVars, progressVars, apiVars, pwInput, pwResult, plaintext,
                   key_string, decrypted>>

\* On its way back the blob is cut to fewer bytes than the nonce has.
Cut ==
    /\ envelope = "sealed"
    /\ decrypted = NotCalled
    /\ \E n \in 0..(NonceLength - 1) :
          encrypted_b64' = Returned(b64encode(
              SubSeq(b64decode(encrypted_b64.value), 1, n)))
    /\ envelope' = "short"
    /\ UNCHANGED <<probeVars, progressVars, apiVars, pwInput, pwResult, plaintext,
                   key_string, decrypted>>

\* decrypted = aes_decrypt(data.get('data', ''), SESSION_KEY)
Open ==
    /\ envelope # "none"
    /\ decrypted = NotCalled
    /\ decrypted' = aes_decrypt(encrypted_b64.value, key_string)
    /\ UNCHANGED <<probeVars, progressVars, apiVars, pwInput, pwResult, plaintext,
                   key_string, encrypted_b64, envelope>>

CryptoNext ==
    \/ Seal
    \/ Alter
    \/ Cut
    \/ Open

CryptoSpec == CryptoInit /\ [][CryptoNext]_vars

\* C15: with the AEAD primitive available, aes_decrypt of what aes_encrypt
\* returned for a plaintext, under the same secret, returns that plaintext.
C15_RoundTrip ==
    (HAS_CRYPTO /\ envelope = "sealed" /\ decrypted # NotCalled)
        => decrypted = Returned(plaintext)

\* C15 witness: the empty string has made the round trip.
C15_Witness ==
    /\ HAS_CRYPTO
    /\ envelope = "sealed"
    /\ plaintext = <<>>
    /\ decrypted = Returned(<<>>)

\* C15 witness of a text that is not ASCII making the round trip.
C15_WitnessUnicode ==
    /\ HAS_CRYPTO
    /\ envelope = "sealed"
    /\ plaintext = <<8364, 233>>
    /\ decrypted = Returned(plaintext)

\* C16: aes_decrypt of an envelope with an altered ciphertext or
\* tag byte, or of a blob shorter than the nonce, raises the authentication
\* error.
C16_AuthenticationError ==
    (HAS_CRYPTO /\ envelope \in {"altered", "short"} /\ decrypted # NotCalled)
        => decrypted = Raised("InvalidTag")

\* C16, the part that holds: aes_decrypt of such an envelope raises and
\* returns no plaintext: InvalidTag for an altered byte and for a blob of 8
\* to 11 bytes, the nonce length ValueError for a blob of fewer than 8 bytes.
C16_DecryptFails ==
    (HAS_CRYPTO /\ envelope \in {"altered", "short"} /\ decrypted # NotCalled)
        => /\ decrypted.kind = "raised"
           /\ decrypted.error =
                 IF Len(b64decode(encrypted_b64.value)) < MinNonceLength
                 THEN "ValueError" ELSE "InvalidTag"

\* C16: the case of an altered byte is reached: an envelope of a plaintext that is not empty had a byte
\* altered and aes_decrypt raised InvalidTag.
C16_Witness ==
    /\ HAS_CRYPTO
    /\ envelope = "altered"
    /\ Len(plaintext) > 0
    /\ decrypted = Raised("InvalidTag")

\* ------------------------------------------------ requests and their bodies

\* The passwords of the request bodies, as JSON strings, and their spelling
\* for the validator.
Spelling ==
    ("" :> <<>>) @@
    ("Passw0rd!" :> <<"P","a","s","s","w","0","r","d","!">>) @@
    ("Password!" :> <<"P","a","s","s","w","o","r","d","!">>) @@
    ("R00tPass!" :> <<"R","0","0","t","P","a","s","s","!">>) @@
    ("rootpass" :> <<"r","o","o","t","p","a","s","s">>)

AccountPasswords == {"", "Passw0rd!", "Password!"}

RootPasswords == {"", "R00tPass!", "rootpass"}

EncryptionPasswords == {"", "luks-secret"}

\* wifi.get('password', '') of an install-start request
WifiPasswords == {"", "wifi-secret"}

\* The fields the handlers read from a request, each with the default of
\* its .get when the key is missing.
AllFields ==
    [drive : Drives, username : Usernames, password : AccountPasswords,
     rootPassword : RootPasswords, encrypt : BOOLEAN,
     encryptionPassword : EncryptionPasswords, wifiPassword : WifiPasswords]

\* A request that passes every check.
BaseFields ==
    [drive |-> "/dev/sda", username |-> "admin", password |-> "Passw0rd!",
     rootPassword |-> "", encrypt |-> FALSE, encryptionPassword |-> "",
     wifiPassword |-> ""]

\* The field sets of the requests of the model: BaseFields with any one
\* or two of its fields changed, the WiFi password only on its own.
Fields ==
    {f \in AllFields :
        /\ \E k1, k2 \in DOMAIN f :
              \A k \in DOMAIN f \ {k1, k2} : f[k] = BaseFields[k]
        /\ f.wifiPassword # "" =>
              \A k \in DOMAIN f \ {"wifiPassword"} : f[k] = BaseFields[k]}

\* A JSON object with none of these keys.
NoFields ==
    [drive |-> "", username |-> "", password |-> "", rootPassword |-> "",
     encrypt |-> FALSE, encryptionPassword |-> "", wifiPassword |-> ""]

\* The 'data' string of a body: whether aes_decrypt under SESSION_KEY
\* returns it opened (and json.loads then gives payload) or raises.
NoData == [opens |-> FALSE, payload |-> NoFields]

\* The request bodies: plain ones, ones marked encrypted whose envelope
\* opens, and ones marked encrypted whose envelope does not; the last may
\* carry fields of their own beside 'encrypted' and 'data'.
Bodies ==
    {[encrypted |-> FALSE, data |-> NoData, fields |-> f] : f \in Fields}
    \cup {[encrypted |-> TRUE, data |-> [opens |-> TRUE, payload |-> f],
           fields |-> NoFields] : f \in Fields}
    \cup {[encrypted |-> TRUE, data |-> NoData, fields |-> f] :
              f \in {NoFields, BaseFields}}

\* What _decrypt_if_needed gives: the field set the handler goes on with,
\* or the exception of aes_decrypt.
decrypt_if_needed(body) ==
    IF body.encrypted /\ HAS_CRYPTO
    THEN IF body.data.opens
         THEN [raised |-> FALSE, fields |-> body.data.payload]
         ELSE [raised |-> TRUE, fields |-> NoFields]
    ELSE [raised |-> FALSE, fields |-> body.fields]

\* json.dump of a bool
FormatBool(b) == IF b THEN "true" ELSE "false"

\* openssl passwd -6 -stdin: the crypt string of a password
openssl_passwd(p) ==
    CASE p = "Passw0rd!" -> "$6$Jk2$mZ0q1"
      [] p = "Password!" -> "$6$w8T$7Yb3c"
      [] OTHER -> "$6$e5R$0Lx9d"

\* install_id = f"install_{int(time.time())}"
install_id == "install_" \o ToString(clock)

\* install_cfg that also keeps the password.
install_cfg_with_password(f) ==
    {<<"drive", f.drive>>, <<"encrypt", FormatBool(f.encrypt)>>,
     <<"username", f.username>>, <<"password", f.password>>,
     <<"hostname", "easyos">>,
     <<"wifiSSID", "">>, <<"wifiPassword", f.wifiPassword>>}

\* install_cfg of webui/server.py, written to /tmp/easyos-install-config.json
install_cfg(f) ==
    {<<"drive", f.drive>>, <<"encrypt", FormatBool(f.encrypt)>>,
     <<"username", f.username>>, <<"hostname", "easyos">>,
     <<"wifiSSID", "">>, <<"wifiPassword", f.wifiPassword>>}

\* cfg['install'] of dev-server.py
cfg_install(f) ==
    {<<"install.id", install_id>>, <<"install.drive", f.drive>>,
     <<"install.encrypt", FormatBool(f.encrypt)>>,
     <<"install.username", f.username>>, <<"install.hostname", "easeos">>,
     <<"install.wifi_ssid", "">>, <<"install.started", "true">>,
     <<"install.startedAt", ToString(clock)>>}

\* cfg[key] = new: the pairs under key are replaced, the others are kept
SetKey(cfg, keys, new) == {kv \in cfg : kv[1] \notin keys} \cup new

\* What an accepted install-start writes to disk.
WriteInstallFiles(f) ==
    IF mode = "prod"
    THEN \E hashed \in BOOLEAN :
            files' = [files EXCEPT
                !["/tmp/easyos-install-config.json"] = install_cfg(f),
                !["/tmp/easyos-password-hash"] =
                    IF hashed THEN {<<"", openssl_passwd(f.password)>>} ELSE @,
                !["/tmp/easyos-encryption-password"] =
                    IF f.encrypt /\ f.encryptionPassword # ""
                    THEN {<<"", f.encryptionPassword>>} ELSE @]
    ELSE IF mode = "devserver"
    THEN files' = [files EXCEPT !["CONFIG_FILE"] =
                      SetKey(@, {kv[1] : kv \in cfg_install(f)}, cfg_install(f))]
    ELSE UNCHANGED files

\* The answer to an exception caught by the handler: webui/server.py returns
\* {'success': False, 'error': str(e)}, sent with 400; dev-server.py sends
\* 500.  e is the name of the exception, in place of its str.
HandlerException(kind, e) ==
    /\ lastResp' = [kind |-> kind,
                    code |-> IF mode = "devserver" THEN 500 ELSE 400,
                    success |-> FALSE, error |-> e]
    /\ UNCHANGED <<mode, INSTALL_PROGRESS, status, pc, published, launched,
                   PROGRESS_FILE>>

\* _handle_install_start of webui/server.py, the /api/install/start branch
\* of dev-server.py
handle_install_start(body) ==
    LET d == decrypt_if_needed(body)
        f == d.fields
        err == Validate([drive |-> f.drive, username |-> f.username,
                         password |-> Spelling[f.password]])
    IN  /\ IF d.raised
           THEN HandlerException("start", "InvalidTag") /\ UNCHANGED <<files, issued>>
           ELSE /\ StartInstallAfter(err)
                /\ IF err # None
                   THEN UNCHANGED <<files, issued>>
                   ELSE /\ WriteInstallFiles(f)
                        /\ issued' = Append(issued, install_id)
        /\ UNCHANGED <<HAS_CRYPTO, SESSION_KEY, clock, fnVars, probeVars>>

\* -------------------------------------------------- POST /api/setup/account

\* The answer to an account request; it touches neither the progress record
\* nor the tasks.
AccountAnswer(code, ok, msg) ==
    /\ lastResp' = [kind |-> "account", code |-> code, success |-> ok,
                    error |-> msg]
    /\ UNCHANGED <<mode, INSTALL_PROGRESS, status, pc, published, launched,
                   PROGRESS_FILE>>

\* cfg['admin'] and cfg['hostName'] of webui/server.py
cfg_admin(f) ==
    {<<"admin.username", f.username>>, <<"admin.hostname", "easyos">>,
     <<"admin.created", "true">>, <<"hostName", "easyos">>}

\* cfg['admin'] of dev-server.py
cfg_admin_dev(f) ==
    {<<"admin.username", f.username>>, <<"admin.hostname", "easeos">>,
     <<"admin.passwordHash", "[DEV_MODE_HASH]">>, <<"admin.created", "true">>}

\* The checks of the account handler: webui/server.py asks for username and
\* password and validates the password; dev-server.py validates the
\* password and, when one is given, the root password.
ValidateAccount(f) ==
    IF mode = "devserver"
    THEN IF validate_password_strength(Spelling[f.password]) # None
         THEN validate_password_strength(Spelling[f.password])
         ELSE IF /\ f.rootPassword # ""
                 /\ validate_password_strength(Spelling[f.rootPassword]) # None
         THEN "Root password: " \o
                  validate_password_strength(Spelling[f.rootPassword])
         ELSE None
    ELSE IF f.username = "" \/ f.password = ""
         THEN "Username and password required"
         ELSE validate_password_strength(Spelling[f.password])

\* return {'success': True, 'username': username, 'hostname': hostname}
AccountCreated(f) ==
    /\ lastResp' = [kind |-> "account", code |-> 200, success |-> TRUE,
                    error |-> None, username |-> f.username]
    /\ UNCHANGED <<mode, INSTALL_PROGRESS, status, pc, published, launched,
                   PROGRESS_FILE>>

\* The files after an accepted account request, from the files before it;
\* hashed is whether openssl passwd exited with 0.
account_files(old, f, hashed) ==
    IF mode = "devserver"
    THEN [old EXCEPT !["CONFIG_FILE"] =
             SetKey(@, {kv[1] : kv \in cfg_admin_dev(f)}, cfg_admin_dev(f))]
    ELSE [old EXCEPT
             !["CONFIG_FILE"] =
                 SetKey(@, {kv[1] : kv \in cfg_admin(f)}, cfg_admin(f)),
             !["/etc/easy/credentials.json"] =
                 IF mode = "prod" /\ hashed
                 THEN {<<"passwordHash", openssl_passwd(f.password)>>,
                       <<"username", f.username>>}
                 ELSE @]

\* What an accepted account request writes to disk.
WriteAccountFiles(f) ==
    IF mode = "devserver"
    THEN files' = account_files(files, f, TRUE)
    ELSE \E hashed \in BOOLEAN : files' = account_files(files, f, hashed)

\* A variant that saves the configuration before it validates.
handle_account_setup_write_first(body) ==
    LET d == decrypt_if_needed(body)
        f == d.fields
        err == ValidateAccount(f)
    IN  /\ IF d.raised
           THEN HandlerException("account", "InvalidTag") /\ UNCHANGED files
           ELSE IF err # None
           THEN /\ AccountAnswer(400, FALSE, err)
                /\ files' = account_files(files, f, FALSE)
           ELSE AccountCreated(f) /\ WriteAccountFiles(f)
        /\ UNCHANGED <<HAS_CRYPTO, SESSION_KEY, clock, issued, fnVars, probeVars>>

\* _handle_account_setup of webui/server.py, the /api/setup/account branch
\* of dev-server.py;
\* subprocess.run raises when openssl is missing, and open when /etc/easy
\* is, after save_config has run
handle_account_setup(body) ==
    LET d == decrypt_if_needed(body)
        f == d.fields
        err == ValidateAccount(f)
    IN  /\ IF d.raised
           THEN HandlerException("account", "InvalidTag") /\ UNCHANGED files
           ELSE IF err # None
           THEN AccountAnswer(400, FALSE, err) /\ UNCHANGED files
           ELSE \/ AccountCreated(f) /\ WriteAccountFiles(f)
                \/ /\ mode = "prod"
                   /\ HandlerException("account", "FileNotFoundError")
                   /\ files' = account_files(files, f, FALSE)
        /\ UNCHANGED <<HAS_CRYPTO, SESSION_KEY, clock, issued, fnVars, probeVars>>

\* ------------------------------------------------------ the API, followed

\* How many seconds the clock advances in one behaviour.
MaxClock == 2

\* A second passes.
Tick ==
    /\ clock < MaxClock
    /\ clock' = clock + 1
    /\ UNCHANGED <<progressVars, HAS_CRYPTO, SESSION_KEY, files, issued, fnVars, probeVars>>

ApiInit ==
    /\ ProgressInit
    /\ HAS_CRYPTO \in BOOLEAN
    /\ SESSION_KEY = PinnedKey
    /\ files = NoFiles
    /\ clock = 0
    /\ issued = <<>>
    /\ FnIdle

\* ApiSpec follows the requests and what they leave on disk.  The tasks an
\* accepted start launches do not run in it: they write INSTALL_PROGRESS
\* alone, which neither handler reads.
ApiNext ==
    \/ \E body \in Bodies : handle_install_start(body)
    \/ \E body \in Bodies : handle_account_setup(body)
    \/ Tick

ApiSpec == ApiInit /\ [][ApiNext]_vars

\* The field set a client submitted with a body: inside the envelope when
\* the body is marked encrypted, the body's own fields otherwise.
Submitted(body) == IF body.encrypted THEN body.data.payload ELSE body.fields

\* Nothing was launched by the step.
NothingStarted == UNCHANGED <<status, launched, INSTALL_PROGRESS>>

\* C11: an install-start request with encrypt true and an empty (or
\* missing) encryptionPassword is answered with a failure and starts no
\* install.
C11_EncryptionPasswordRequired ==
    [][\A body \in Bodies :
          (/\ handle_install_start(body)
           /\ Submitted(body).encrypt
           /\ Submitted(body).encryptionPassword = "")
              => (~lastResp'.success /\ NothingStarted)]_vars

\* C12: an install-start request with a rootPassword that is not empty and
\* fails a rule of the password policy is answered with a failure and
\* starts no install.
C12_RootPasswordValidated ==
    [][\A body \in Bodies :
          (/\ handle_install_start(body)
           /\ Submitted(body).rootPassword # ""
           /\ validate_password_strength(
                  Spelling[Submitted(body).rootPassword]) # None)
              => (~lastResp'.success /\ NothingStarted)]_vars

\* C13: with the AEAD primitive available, an install-start request marked
\* encrypted whose envelope does not decrypt is answered with a status of
\* the 400 class, and it starts no install and writes no file.
C13_DecryptFailureRejected ==
    [][\A body \in Bodies :
          (/\ handle_install_start(body)
           /\ HAS_CRYPTO
           /\ body.encrypted
           /\ ~body.data.opens)
              => (/\ lastResp'.code >= 400
                  /\ lastResp'.code < 500
                  /\ ~lastResp'.success
                  /\ NothingStarted
                  /\ UNCHANGED files)]_vars

\* C14: with the AEAD primitive unavailable no handler goes on with a body
\* marked encrypted as if it were plain: such an install-start or account
\* request is answered with a failure, starts no install and writes no file.
C14_NoPlaintextFallback ==
    [][\A body \in Bodies :
          (/\ handle_install_start(body) \/ handle_account_setup(body)
           /\ ~HAS_CRYPTO
           /\ body.encrypted)
              => (/\ ~lastResp'.success
                  /\ NothingStarted
                  /\ UNCHANGED files)]_vars

\* The account and root passwords of the requests of the model.
RequestPasswords == (AccountPasswords \cup RootPasswords) \ {""}

\* C17: no file the handlers have written holds, under any key, a password
\* of a request: the password reaches the disk only as its crypt string.
C17_NoCleartextPassword ==
    \A path \in Paths : \A kv \in files[path] : kv[2] \notin RequestPasswords

\* C17 witness: an install-start and an account request, both with a
\* password, have been accepted in production and have written the install
\* configuration, the password hash and the credentials file.
C17_Witness ==
    /\ mode = "prod"
    /\ files["/tmp/easyos-install-config.json"] # {}
    /\ files["/tmp/easyos-password-hash"] = {<<"", openssl_passwd("Passw0rd!")>>}
    /\ \E kv \in files["/etc/easy/credentials.json"] : kv[1] = "passwordHash"
    /\ files["CONFIG_FILE"] # {}

\* C18: the installId values returned by the accepted install-start
\* requests of one process are pairwise different.
C18_InstallIdsDiffer ==
    \A i, j \in 1..Len(issued) : i # j => issued[i] # issued[j]


\* ---------------------------------------------------------------------
\* Storage detection: _detect_storage reads the device tree lsblk prints.

\* The file system types lsblk reports for a partition: none (null or the
\* empty string, both false for `if fstype`), swap, or one that holds data.
Fstypes == {"", "swap", "ext4"}

\* The children of a device: no partition, one, or two.
PartitionTables ==
    {<<>>} \cup {<<a>> : a \in Fstypes} \cup {<<a, b>> : a, b \in Fstypes}

\* The block devices of the lsblk tree: a disk with any partition table, a
\* loop device, an optical drive, and a disk entry whose name is null.
BlockDevices ==
    [type : {"disk"}, name : {"sda"}, children : PartitionTables]
      \cup {[type |-> "disk", name |-> "loop0", children |-> <<>>],
            [type |-> "rom", name |-> "sr0", children |-> <<>>],
            [type |-> "disk", name |-> None, children |-> <<>>]}

MaxDevices == 3

DeviceLists == UNION {[1..n -> BlockDevices] : n \in 0..MaxDevices}

\* What subprocess.run and json.loads give: the device list, or an exception
\* (lsblk missing, timeout, output that is not JSON).
LsblkOutputs ==
    {[kind |-> "lsblk", failed |-> TRUE, blockdevices |-> <<>>]}
      \cup {[kind |-> "lsblk", failed |-> FALSE, blockdevices |-> ds] :
               ds \in DeviceLists}

\* if fstype and fstype not in ['', 'swap']
holds_data(fstype) == fstype # "" /\ fstype \notin {"", "swap"}

\* partitions: the children appended inside that `if`.
RECURSIVE data_partitions(_)
data_partitions(children) ==
    IF children = <<>> THEN <<>>
    ELSE LET rest == data_partitions(Tail(children))
         IN  IF holds_data(Head(children))
             THEN <<Head(children)>> \o rest
             ELSE rest

\* has_data: set by any child that passes the `if`.
has_data(children) == \E i \in DOMAIN children : holds_data(children[i])

\* The devices the loop skips: what is not a disk, and the names that start
\* with loop, ram or zram.
skipped(device) ==
    \/ device.type # "disk"
    \/ device.name \in {"loop0"}

\* name.startswith(...) on a null name raises AttributeError.
raises(device) == device.type = "disk" /\ device.name = None

\* The dictionary appended to drives for one disk.
drive_entry(device) ==
    LET partitions == data_partitions(device.children)
    IN  [name |-> device.name,
         path |-> "/dev/" \o device.name,
         hasData |-> has_data(device.children),
         isBlank |-> ~has_data(device.children) /\ Len(partitions) = 0,
         partitions |-> partitions]

\* The for loop over blockdevices: an exception ends it and leaves in
\* drives what was appended before.
RECURSIVE collect_drives(_, _)
collect_drives(devices, drives) ==
    IF devices = <<>> THEN drives
    ELSE LET device == Head(devices)
         IN  IF device.type # "disk" THEN collect_drives(Tail(devices), drives)
             ELSE IF raises(device) THEN drives
             ELSE IF skipped(device) THEN collect_drives(Tail(devices), drives)
             ELSE collect_drives(Tail(devices), Append(drives, drive_entry(device)))

\* A variant that proposes the first blank drive however many drives there are.
storage_answer_first_blank(drives) ==
    [drives |-> drives,
     autoInstallDrive |->
         IF Len(drives) >= 1 /\ drives[1].isBlank THEN drives[1].path ELSE None]

\* The dictionary _detect_storage returns for a list of drives.
storage_answer(drives) ==
    [drives |-> drives,
     autoInstallDrive |->
         IF Len(drives) = 1 /\ drives[1].isBlank THEN drives[1].path ELSE None]

\* _detect_storage: outside production no probe runs.
detect_storage(m, out) ==
    IF m # "prod" THEN Returned(storage_answer(<<>>))
    ELSE IF out.failed THEN Returned(storage_answer(<<>>))
    ELSE Returned(storage_answer(collect_drives(out.blockdevices, <<>>)))

StorageInit ==
    /\ ProgressInit
    /\ mode \in {"dev", "prod"}
    /\ ApiIdle
    /\ pwInput = <<>>
    /\ pwResult = "unset"
    /\ plaintext = <<>>
    /\ key_string = <<>>
    /\ encrypted_b64 = NotCalled
    /\ envelope = "none"
    /\ decrypted = NotCalled
    /\ toolOutput \in LsblkOutputs
    /\ probeResult = NotCalled

\* GET /api/storage/detect
DetectStorage ==
    /\ probeResult = NotCalled
    /\ probeResult' = detect_storage(mode, toolOutput)
    /\ UNCHANGED <<progressVars, apiVars, fnVars, toolOutput>>

StorageNext == DetectStorage

StorageSpec == StorageInit /\ [][StorageNext]_vars

\* The drives of the answer.
Detected == probeResult.value.drives

\* The disks of the device tree an answer lists, in the order of the tree.
IsListedDisk(device) == device.type = "disk" /\ device.name \notin {"loop0", None}

Probed == SelectSeq(toolOutput.blockdevices, IsListedDisk)

\* C24: in every answer a drive has hasData exactly when one of its
\* partitions has a non-empty file system type other than swap, and isBlank
\* exactly when it has no data and no partition at all.
C24_BlankMeansNoPartitions ==
    probeResult # NotCalled =>
        \A i \in DOMAIN Detected :
            LET d == Detected[i]
                children == Probed[i].children
            IN  /\ d.hasData =
                     (\E k \in DOMAIN children :
                          children[k] \notin {"", "swap"})
                /\ d.isBlank = (~d.hasData /\ Len(children) = 0)

\* C25: autoInstallDrive is set exactly when the answer has one drive and
\* that drive's isBlank is true, and then it is that drive's path.
C25_AutoInstallDrive ==
    probeResult # NotCalled =>
        LET answer == probeResult.value
            one == Len(answer.drives) = 1 /\ answer.drives[1].isBlank
        IN  /\ (answer.autoInstallDrive # None) = one
            /\ one => answer.autoInstallDrive = answer.drives[1].path

\* C25: an answer with a single blank drive, chosen for installation.
C25_Witness ==
    /\ probeResult # NotCalled
    /\ Len(Detected) = 1
    /\ probeResult.value.autoInstallDrive = "/dev/sda"

\* C25: an answer with two blank drives, none chosen.
C25_WitnessTwo ==
    /\ probeResult # NotCalled
    /\ Len(Detected) = 2
    /\ \A i \in DOMAIN Detected : Detected[i].isBlank
    /\ probeResult.value.autoInstallDrive = None

\* The probe failed: the tool did, or a device of the tree raised.
ProbeFailed ==
    \/ toolOutput.failed
    \/ \E i \in DOMAIN toolOutput.blockdevices :
          raises(toolOutput.blockdevices[i])

\* C26: when the probe fails at any point, the answer is the empty drive
\* list with no drive chosen.
C26_FailureGivesEmpty ==
    (probeResult # NotCalled /\ mode = "prod" /\ ProbeFailed) =>
        /\ probeResult.kind = "returned"
        /\ Detected = <<>>
        /\ probeResult.value.autoInstallDrive = None



\* ---------------------------------------------------------------------
\* WiFi scan: _scan_wifi parses the terse output of nmcli.  Text is a
\* sequence of characters.

WPA2 == <<"W", "P", "A", "2">>

\* security when a line has two fields only.
Unknown == <<"U", "n", "k", "n", "o", "w", "n">>

\* The fallback list of the except branch.
MockNetworks ==
    <<[ssid |-> <<"H", "o", "m", "e", "N", "e", "t", "w", "o", "r", "k">>, signal |-> 92, security |-> WPA2],
      [ssid |-> <<"F", "a", "m", "i", "l", "y", "W", "i", "f", "i", "_", "5", "G">>, signal |-> 78, security |-> WPA2]>>

\* A variant whose except branch gives the mock list in production too.
scan_failure_always_mock(m) == MockNetworks

\* The networks in range, as nmcli knows them: SSID, signal and security, the
\* signal as the text nmcli prints for it.
Networks ==
    {[ssid |-> <<"A">>, signal |-> <<"9", "0">>, security |-> WPA2],
     [ssid |-> <<"B">>, signal |-> <<"6", "0">>, security |-> WPA2],
     [ssid |-> <<"A">>, signal |-> <<"9", "5">>, security |-> <<"W", "E", "P">>],
     [ssid |-> <<>>, signal |-> <<"8", "0">>, security |-> WPA2],
     [ssid |-> <<"C">>, signal |-> <<"*">>, security |-> <<>>],
     [ssid |-> <<"C", ":", "D">>, signal |-> <<"7", "0">>, security |-> WPA2]}

MaxNetworks == 3

NetworkLists == UNION {[1..n -> Networks] : n \in 0..MaxNetworks}

\* nmcli -t: in terse mode the values of a line are separated by ':' and a
\* ':' or '\' inside a value is escaped with '\'.
RECURSIVE nmcli_escape(_)
nmcli_escape(text) ==
    IF text = <<>> THEN <<>>
    ELSE (IF Head(text) \in {":", "\\"} THEN <<"\\", Head(text)>>
                                        ELSE <<Head(text)>>)
           \o nmcli_escape(Tail(text))

nmcli_line(network) ==
    nmcli_escape(network.ssid) \o <<":">> \o nmcli_escape(network.signal)
      \o <<":">> \o nmcli_escape(network.security) \o <<"\n">>

\* result.stdout: one line for each network.
RECURSIVE nmcli_stdout(_)
nmcli_stdout(networks) ==
    IF networks = <<>> THEN <<>>
    ELSE nmcli_line(Head(networks)) \o nmcli_stdout(Tail(networks))

\* What the two subprocess.run calls give: the output of the list command,
\* or an exception (nmcli missing, timeout).
NmcliOutputs ==
    {[kind |-> "nmcli", failed |-> TRUE, networks |-> <<>>, stdout |-> <<>>]}
      \cup {[kind |-> "nmcli", failed |-> FALSE, networks |-> ns,
             stdout |-> nmcli_stdout(ns)] : ns \in NetworkLists}

\* str.split(sep)
RECURSIVE split(_, _)
split(text, sep) ==
    IF \A i \in DOMAIN text : text[i] # sep THEN <<text>>
    ELSE LET i == CHOOSE k \in DOMAIN text :
                      text[k] = sep /\ \A j \in 1..(k - 1) : text[j] # sep
         IN  <<SubSeq(text, 1, i - 1)>>
               \o split(SubSeq(text, i + 1, Len(text)), sep)

\* str.strip()
RECURSIVE lstrip(_)
lstrip(text) ==
    IF text # <<>> /\ Head(text) \in {" ", "\t", "\n", "\r"}
    THEN lstrip(Tail(text)) ELSE text

RECURSIVE rstrip(_)
rstrip(text) ==
    IF text # <<>> /\ text[Len(text)] \in {" ", "\t", "\n", "\r"}
    THEN rstrip(SubSeq(text, 1, Len(text) - 1)) ELSE text

strip(text) == rstrip(lstrip(text))

\* int(text) for the text of the model: decimal digits, or ValueError.
RECURSIVE decimal(_)
decimal(text) ==
    IF text = <<>> THEN 0
    ELSE 10 * decimal(SubSeq(text, 1, Len(text) - 1))
           + (CHOOSE d \in 0..9 : ToString(d) = text[Len(text)])

int(text) ==
    LET t == strip(text)
    IN  IF t # <<>> /\ \A i \in DOMAIN t : t[i] \in Digits
        THEN Returned(decimal(t))
        ELSE Raised("ValueError")

\* The loop over the lines: seen holds the SSIDs appended so far.
RECURSIVE parse_lines(_, _, _)
parse_lines(lines, seen, networks) ==
    IF lines = <<>> THEN networks
    ELSE LET line == Head(lines)
             parts == split(line, ":")
             ssid == strip(parts[1])
             signal == IF int(parts[2]).kind = "returned"
                       THEN int(parts[2]).value ELSE 50
             security == IF Len(parts) > 2 THEN parts[3] ELSE Unknown
         IN  IF line # <<>> /\ Len(parts) >= 2 /\ ssid # <<>> /\ ssid \notin seen
             THEN parse_lines(Tail(lines), seen \cup {ssid},
                      Append(networks, [ssid |-> ssid, signal |-> signal,
                                        security |-> security]))
             ELSE parse_lines(Tail(lines), seen, networks)

\* networks.sort(key=lambda x: x['signal'], reverse=True): a stable sort.
RECURSIVE sort_by_signal(_)
sort_by_signal(networks) ==
    IF networks = <<>> THEN <<>>
    ELSE LET n == Len(networks)
             last == networks[n]
             sorted == sort_by_signal(SubSeq(networks, 1, n - 1))
             before == SelectSeq(sorted, LAMBDA x : x.signal >= last.signal)
             after == SelectSeq(sorted, LAMBDA x : x.signal < last.signal)
         IN  before \o <<last>> \o after

\* The except branch: the mock list in development, in dev-server.py always.
scan_failure(m) == IF m = "prod" THEN <<>> ELSE MockNetworks

\* _scan_wifi
scan_wifi(m, out) ==
    IF out.failed THEN Returned(scan_failure(m))
    ELSE Returned(sort_by_signal(
             parse_lines(split(strip(out.stdout), "\n"), {}, <<>>)))

\* ---------------------------------------------------------------------
\* WiFi connect

\* The SSIDs a client asks for: none, a network, and the two names the
\* development servers treat specially.
Ssids == {"", "Cafe", "fail", "timeout"}

NoSsid == [ssid |-> ""]

\* The bodies of POST /api/wifi/connect: plain, encrypted with an envelope
\* that opens, encrypted with one that does not.
ConnectBodies ==
    {[encrypted |-> FALSE, data |-> [opens |-> FALSE, payload |-> NoSsid],
      fields |-> [ssid |-> s]] : s \in Ssids}
    \cup {[encrypted |-> TRUE, data |-> [opens |-> TRUE, payload |-> [ssid |-> s]],
           fields |-> NoSsid] : s \in Ssids}
    \cup {[encrypted |-> TRUE, data |-> [opens |-> FALSE, payload |-> NoSsid],
           fields |-> [ssid |-> "Cafe"]]}

\* What subprocess.run(cmd, ..., timeout=30) does: nmcli exits with 0, exits
\* with another status with or without a message on stderr, or the call
\* raises TimeoutExpired.
ToolOutcomes == {"exit0", "nonzero", "silent", "timeout"}

\* The answer of one request.  tool is what nmcli did during the request
\* ("notrun" when it was not invoked) and ssid the SSID asked for; both are
\* noted for the properties.
ConnectAnswer(code, ok, msg, ssid, tool) ==
    /\ lastResp' = [kind |-> "connect", code |-> code, success |-> ok,
                    error |-> msg, ssid |-> ssid, tool |-> tool]
    /\ UNCHANGED <<mode, INSTALL_PROGRESS, status, pc, published, launched,
                   PROGRESS_FILE>>

\* A variant that reports success whatever the exit status is.
nmcli_connect_ignoring_status(outcome) ==
    IF outcome = "timeout"
    THEN [success |-> FALSE, error |-> "Command timed out after 30 seconds"]
    ELSE [success |-> TRUE, error |-> None]

\* The production branch: the dictionary returned for an outcome of nmcli.
nmcli_connect(outcome) ==
    CASE outcome = "exit0" -> [success |-> TRUE, error |-> None]
      [] outcome = "nonzero" ->
             [success |-> FALSE, error |-> "Error: Connection activation failed."]
      [] outcome = "silent" -> [success |-> FALSE, error |-> "Connection failed"]
      [] outcome = "timeout" ->
             [success |-> FALSE, error |-> "Command timed out after 30 seconds"]

\* _handle_wifi_connect of webui/server.py with the status do_POST sends,
\* and the /api/wifi/connect branch of dev-server.py
handle_wifi_connect(body, outcome) ==
    LET d == decrypt_if_needed(body)
        ssid == IF d.raised THEN "" ELSE d.fields.ssid
    IN  /\ IF mode = "devserver"
           THEN IF d.raised
                THEN ConnectAnswer(500, FALSE, "decrypt", ssid, "notrun")
                ELSE IF ssid = "fail"
                THEN ConnectAnswer(200, FALSE,
                         "Connection failed: incorrect password or network not found",
                         ssid, "notrun")
                ELSE IF ssid = "timeout"
                THEN ConnectAnswer(200, FALSE, "Connection timed out", ssid, "notrun")
                ELSE ConnectAnswer(200, TRUE, None, ssid, "notrun")
           ELSE IF d.raised
                THEN ConnectAnswer(400, FALSE, "decrypt", ssid, "notrun")
                ELSE IF ssid = ""
                THEN ConnectAnswer(400, FALSE, "SSID required", ssid, "notrun")
                ELSE IF mode = "dev"
                THEN IF ssid = "fail"
                     THEN ConnectAnswer(400, FALSE,
                              "Connection failed: incorrect password", ssid, "notrun")
                     ELSE ConnectAnswer(200, TRUE, None, ssid, "notrun")
                ELSE LET result == nmcli_connect(outcome)
                     IN  ConnectAnswer(IF result.success THEN 200 ELSE 400,
                             result.success, result.error, ssid, outcome)
        /\ UNCHANGED <<apiVars, fnVars, probeVars>>

ScanInit ==
    /\ ProgressInit
    /\ HAS_CRYPTO \in BOOLEAN
    /\ SESSION_KEY = PinnedKey
    /\ files = NoFiles
    /\ clock = 0
    /\ issued = <<>>
    /\ pwInput = <<>>
    /\ pwResult = "unset"
    /\ plaintext = <<>>
    /\ key_string = <<>>
    /\ encrypted_b64 = NotCalled
    /\ envelope = "none"
    /\ decrypted = NotCalled
    /\ toolOutput \in NmcliOutputs
    /\ probeResult = NotCalled

\* networks = self._scan_wifi()
ScanWifi ==
    /\ probeResult = NotCalled
    /\ probeResult' = scan_wifi(mode, toolOutput)
    /\ UNCHANGED <<progressVars, apiVars, fnVars, toolOutput>>

\* ScanSpec follows the network scanner: one scan, and the connect requests
\* of a client.
ScanNext ==
    \/ ScanWifi
    \/ \E body \in ConnectBodies, outcome \in ToolOutcomes :
           handle_wifi_connect(body, outcome)

ScanSpec == ScanInit /\ [][ScanNext]_vars

\* The signal of a network as a number: its text read as a number, 50 when
\* the text is no number.
SignalOf(network) ==
    IF \A i \in DOMAIN network.signal : network.signal[i] \in Digits
         /\ network.signal # <<>>
    THEN decimal(network.signal) ELSE 50

\* The first network in range with this SSID.
FirstWith(ssid) ==
    toolOutput.networks[CHOOSE k \in DOMAIN toolOutput.networks :
        /\ toolOutput.networks[k].ssid = ssid
        /\ \A j \in 1..(k - 1) : toolOutput.networks[j].ssid # ssid]

\* C21: the result of a scan lists every non-empty SSID in range exactly
\* once, with the signal and security of the first network of that SSID, in
\* descending order of signal.
C21_DedupFirstSeenSorted ==
    (probeResult # NotCalled /\ ~toolOutput.failed) =>
        LET result == probeResult.value
            inRange == {toolOutput.networks[k].ssid :
                            k \in DOMAIN toolOutput.networks} \ {<<>>}
        IN  /\ \A ssid \in inRange :
                   Cardinality({i \in DOMAIN result : result[i].ssid = ssid}) = 1
            /\ \A i \in DOMAIN result :
                   /\ result[i].ssid \in inRange
                   /\ result[i].signal = SignalOf(FirstWith(result[i].ssid))
                   /\ result[i].security = FirstWith(result[i].ssid).security
            /\ \A i, j \in DOMAIN result :
                   i < j => result[i].signal >= result[j].signal

\* C21 holds of the scans in which no SSID has a colon.
C21_WithoutColon ==
    (\A k \in DOMAIN toolOutput.networks :
         \A i \in DOMAIN toolOutput.networks[k].ssid :
             toolOutput.networks[k].ssid[i] # ":")
      => C21_DedupFirstSeenSorted

\* C22: when the scan fails, _scan_wifi returns the empty list.
C22_FailureGivesEmpty ==
    (probeResult # NotCalled /\ toolOutput.failed) =>
        /\ probeResult.kind = "returned"
        /\ probeResult.value = <<>>

\* C22: when the scan fails, _scan_wifi raises nothing; in production it
\* returns the empty list and in development the two mock networks.
C22_FailureNeverRaises ==
    (probeResult # NotCalled /\ toolOutput.failed) =>
        /\ probeResult.kind = "returned"
        /\ mode = "prod" => probeResult.value = <<>>
        /\ mode # "prod" => probeResult.value = MockNetworks

\* C22: a failed scan in production answered with the empty list.
C22_Witness ==
    /\ probeResult # NotCalled
    /\ toolOutput.failed
    /\ mode = "prod"
    /\ probeResult.value = <<>>

\* C22: a failed scan in development answered with the mock networks.
C22_WitnessMock ==
    /\ probeResult # NotCalled
    /\ toolOutput.failed
    /\ mode = "dev"
    /\ Len(probeResult.value) = 2



\* C23: a connect request is answered with success only if nmcli exited
\* with status 0, and every other outcome with success false and an error.
C23_SuccessOnlyOnExitZero ==
    lastResp.kind = "connect" =>
        /\ lastResp.success => lastResp.tool = "exit0"
        /\ ~lastResp.success => lastResp.error # None
        /\ lastResp.ssid = "" => ~lastResp.success

\* C23: in production a connect request is answered with success exactly
\* when nmcli ran and exited with status 0; in development no tool runs and
\* success is simulated, in webui/server.py for every SSID given other than
\* fail, in dev-server.py for every SSID, given or not, other than fail and
\* timeout; every other answer has success false and an error, and only
\* dev-server.py answers an exception with status 500.
C23_ConnectOutcome ==
    lastResp.kind = "connect" =>
        /\ mode = "prod" =>
              /\ lastResp.success = (lastResp.tool = "exit0")
              /\ lastResp.tool # "notrun" => lastResp.ssid # ""
        /\ mode = "dev" =>
              /\ lastResp.tool = "notrun"
              /\ lastResp.success => lastResp.ssid \notin {"", "fail"}
        /\ mode = "devserver" =>
              /\ lastResp.tool = "notrun"
              /\ lastResp.success => lastResp.ssid \notin {"fail", "timeout"}
        /\ ~lastResp.success => lastResp.error # None
        /\ lastResp.code = 500 => mode = "devserver"
        /\ mode # "devserver" =>
              lastResp.code = (IF lastResp.success THEN 200 ELSE 400)

\* C23: in production nmcli exited with 0 and the answer is success.
C23_Witness ==
    /\ lastResp.kind = "connect"
    /\ mode = "prod"
    /\ lastResp.tool = "exit0"
    /\ lastResp.success

\* C23: in production nmcli timed out and the answer is a failure.
C23_WitnessTimeout ==
    /\ lastResp.kind = "connect"
    /\ mode = "prod"
    /\ lastResp.tool = "timeout"
    /\ ~lastResp.success
    /\ lastResp.code = 400

\* C23: in development the answer is success and no tool ran.
C23_WitnessSimulated ==
    /\ lastResp.kind = "connect"
    /\ mode = "dev"
    /\ lastResp.tool = "notrun"
    /\ lastResp.success



\* ---------------------------------------------------------------------
\* Account setup, followed on its own

\* The fields of an account request.
AccountFields ==
    [username : {"", "admin", "amy"},
     password : {"", "Passw0rd!", "R00tPass!", "Password!"},
     rootPassword : {"", "rootpass"}]

\* The bodies of POST /api/setup/account: plain, encrypted with an envelope
\* that opens, encrypted with one that does not.
AccountBodies ==
    {[encrypted |-> FALSE, data |-> NoData, fields |-> f] : f \in AccountFields}
    \cup {[encrypted |-> TRUE, data |-> [opens |-> TRUE, payload |-> f],
           fields |-> NoFields] : f \in AccountFields}
    \cup {[encrypted |-> TRUE, data |-> NoData, fields |-> NoFields]}

AccountNext == \E body \in AccountBodies : handle_account_setup(body)

AccountSpec == ApiInit /\ [][AccountNext]_vars

\* The persisted account state: the admin entries of the configuration and
\* the credentials file.
AdminRecord(f) ==
    [config |-> {kv \in f["CONFIG_FILE"] :
                    kv[1] \in {"admin.username", "admin.hostname",
                               "admin.created", "admin.passwordHash"}},
     credentials |-> f["/etc/easy/credentials.json"]]

\* C27: after a successful account request the persisted admin record is the
\* one that request alone would have produced on a fresh system.
C27_OverwriteIdempotent ==
    [][\A body \in AccountBodies :
          (handle_account_setup(body) /\ lastResp'.success) =>
              \E hashed \in BOOLEAN :
                  AdminRecord(files') =
                      AdminRecord(account_files(NoFiles,
                                      decrypt_if_needed(body).fields, hashed))]_vars

\* C28: whenever an account request is answered with success, the persisted
\* state holds the username, the hostname, created = true and a password
\* hash.
C28_SuccessMeansHashPersisted ==
    (lastResp.kind = "account" /\ lastResp.success) =>
        LET record == AdminRecord(files)
        IN  /\ <<"admin.username", lastResp.username>> \in record.config
            /\ \E kv \in record.config : kv[1] = "admin.hostname"
            /\ <<"admin.created", "true">> \in record.config
            /\ \/ \E kv \in record.config : kv[1] = "admin.passwordHash"
               \/ \E kv \in record.credentials : kv[1] = "passwordHash"



\* ---------------------------------------------------------------------
\* The progress record as polls see it

\* The records a server publishes: the idle one it starts with and the ones
\* its thread function binds.
PublishedRecords ==
    {IdleProgress} \cup {Program(mode)[i] : i \in 1..Len(Program(mode))}

\* C29: the record in memory is always a whole published record, and so is
\* the body of every status poll answered from memory: the idle record or
\* exactly one record a task has stored, never a mix of two.
C29_PollsReturnWholeRecords ==
    /\ INSTALL_PROGRESS \in PublishedRecords
    /\ (lastResp.kind = "poll" /\ mode # "prod")
          => lastResp.body \in PublishedRecords

\* C29 witness: with two installs in progress a poll has returned the record
\* of a middle stage.
C29_Witness ==
    /\ lastResp.kind = "poll"
    /\ mode # "prod"
    /\ Cardinality(lastResp.during) = 2
    /\ lastResp.body.stage = "cloning"
    /\ lastResp.body.progress = 50

\* C30: while an install is in flight the progress record changes only by
\* a store of that install's task: no later request alters it.
C30_NoCallAltersInstall ==
    [][\A t \in Threads :
          (InProgress(t) /\ INSTALL_PROGRESS' # INSTALL_PROGRESS)
              => ThreadStep(t)]_vars

\* C30, the part about the handlers themselves: the progress record changes
\* only in a step of a background task, never in a step of a status poll or
\* of an install-start.
C30_OnlyTasksWrite ==
    [][/\ INSTALL_PROGRESS' # INSTALL_PROGRESS => \E t \in Threads : ThreadStep(t)
       /\ (Poll \/ \E err \in ValidationResults : StartInstallAfter(err))
             => INSTALL_PROGRESS' = INSTALL_PROGRESS]_vars

\* The handlers ApiSpec, AccountSpec, ScanSpec and StorageSpec follow leave
\* the progress record as it was at the start.
ProgressUntouched == INSTALL_PROGRESS = IdleProgress



\* ---------------------------------------------------------------------
\* The session key: SESSION_KEY is bound once, when the module is loaded.

SessionInit ==
    /\ ProgressInit
    /\ mode = "dev"
    /\ HAS_CRYPTO = TRUE
    /\ SESSION_KEY \in Secrets
    /\ files = NoFiles
    /\ clock = 0
    /\ issued = <<>>
    /\ FnIdle

\* GET /api/crypto/session with a new key drawn for every request.
GetSession_regenerating ==
    /\ SESSION_KEY' \in Secrets
    /\ lastResp' = [kind |-> "session", code |-> 200, key |-> SESSION_KEY']
    /\ UNCHANGED <<mode, INSTALL_PROGRESS, status, pc, published, launched,
                   PROGRESS_FILE>>
    /\ UNCHANGED <<HAS_CRYPTO, files, clock, issued, fnVars, probeVars>>

\* GET /api/crypto/session
GetSession ==
    /\ lastResp' = [kind |-> "session", code |-> 200, key |-> SESSION_KEY]
    /\ UNCHANGED <<mode, INSTALL_PROGRESS, status, pc, published, launched,
                   PROGRESS_FILE>>
    /\ UNCHANGED <<apiVars, fnVars, probeVars>>

\* GET /api/wifi/scan: encrypted = aes_encrypt(json.dumps(networks), SESSION_KEY)
EncryptScan ==
    /\ envelope = "none"
    /\ \E data \in Plaintexts, iv \in Nonces :
          /\ plaintext' = data
          /\ encrypted_b64' = aes_encrypt(data, SESSION_KEY, iv)
    /\ key_string' = SESSION_KEY
    /\ envelope' = "scan"
    /\ UNCHANGED <<progressVars, apiVars, pwInput, pwResult, decrypted, probeVars>>

\* The client seals a payload under the key the session request gave it.
ClientSeal ==
    /\ envelope = "none"
    /\ lastResp.kind = "session"
    /\ \E data \in Plaintexts, iv \in Nonces :
          /\ plaintext' = data
          /\ encrypted_b64' = aes_encrypt(data, lastResp.key, iv)
    /\ envelope' = "client"
    /\ UNCHANGED <<progressVars, apiVars, pwInput, pwResult, key_string,
                   decrypted, probeVars>>

\* _decrypt_if_needed: decrypted = aes_decrypt(data.get('data', ''), SESSION_KEY)
DecryptRequest ==
    /\ envelope = "client"
    /\ decrypted = NotCalled
    /\ decrypted' = aes_decrypt(encrypted_b64.value, SESSION_KEY)
    /\ key_string' = SESSION_KEY
    /\ UNCHANGED <<progressVars, apiVars, pwInput, pwResult, plaintext,
                   encrypted_b64, envelope, probeVars>>

SessionNext ==
    \/ GetSession
    \/ EncryptScan
    \/ ClientSeal
    \/ DecryptRequest

SessionSpec == SessionInit /\ [][SessionNext]_vars

\* C31: the session key never changes; a session request returns it, and so
\* the same key as the session request before; every encryption and
\* decryption of the server is under it, so what a client sealed under the
\* key it was given opens.
C31_SessionKeyFixed ==
    [][/\ SESSION_KEY' = SESSION_KEY
       /\ lastResp'.kind = "session" => lastResp'.key = SESSION_KEY
       /\ (lastResp.kind = "session" /\ lastResp'.kind = "session")
             => lastResp'.key = lastResp.key
       /\ key_string' # <<>> => key_string' = SESSION_KEY
       /\ (envelope' = "client" /\ decrypted' # NotCalled)
             => decrypted' = Returned(plaintext')]_vars

\* C31 witness: after two session requests a client has sealed a payload and
\* the server has opened it under its key.
C31_Witness ==
    /\ lastResp.kind = "session"
    /\ envelope = "client"
    /\ plaintext # <<>>
    /\ key_string = SESSION_KEY
    /\ decrypted = Returned(plaintext)



\* ---------------------------------------------------------------------
\* The start of an install and the polls after it

\* C32: an install-start that answers success makes no stage transition of
\* its own: the step that produces the answer leaves the progress record,
\* the position of every task and the progress file as they were.
C32_StartDoesNotWait ==
    [][\A err \in ValidationResults :
          (StartInstallAfter(err) /\ lastResp'.success)
              => /\ INSTALL_PROGRESS' = INSTALL_PROGRESS
                 /\ pc' = pc
                 /\ published' = published
                 /\ PROGRESS_FILE' = PROGRESS_FILE]_vars

\* C32 witness: the success answer has been returned, the task it started
\* has stored nothing yet and the progress record is not complete.
C32_Witness ==
    /\ lastResp.kind = "start"
    /\ lastResp.success
    /\ ~INSTALL_PROGRESS.complete
    /\ \E t \in Threads : status[t] = "alive" /\ published[t] = <<>>



\* The install intent of the fields r is in the files f: drive, encrypt
\* flag, username and a hostname, in the install configuration file or under
\* cfg['install'] of the configuration.
IntentPersisted(f, r) ==
    \E path \in Paths, prefix \in {"", "install."} :
        /\ <<prefix \o "drive", r.drive>> \in f[path]
        /\ <<prefix \o "encrypt", FormatBool(r.encrypt)>> \in f[path]
        /\ <<prefix \o "username", r.username>> \in f[path]
        /\ \E kv \in f[path] : kv[1] = prefix \o "hostname"

\* C33: an install-start that answers success has written the install
\* intent of its request to disk, and one that answers a failure has
\* written nothing.
C33_IntentPersistedBeforeLaunch ==
    [][\A body \in Bodies :
          handle_install_start(body)
              => /\ lastResp'.success
                       => IntentPersisted(files', decrypt_if_needed(body).fields)
                 /\ ~lastResp'.success => files' = files]_vars



\* Every record published so far: the idle one and what the tasks stored.
PublishedSoFar ==
    {IdleProgress} \cup
    UNION {{Program(mode)[published[t][i]] : i \in DOMAIN published[t]} :
              t \in Threads}

\* C34: two published records with the same stage have the same progress
\* and the same message.
C34_StageFixesProgressAndMessage ==
    \A r1, r2 \in PublishedSoFar :
        r1.stage = r2.stage
            => (r1.progress = r2.progress /\ r1.message = r2.message)

\* C35: the progress record has a progress from 0 to 100, is complete
\* exactly when its stage is complete and exactly when its progress is 100,
\* is running exactly when its stage is neither idle nor complete, and has
\* no error.
C35_RecordWellFormed ==
    /\ INSTALL_PROGRESS.progress \in 0..100
    /\ INSTALL_PROGRESS.complete = (INSTALL_PROGRESS.stage = "complete")
    /\ INSTALL_PROGRESS.complete = (INSTALL_PROGRESS.progress = 100)
    /\ INSTALL_PROGRESS.running = (INSTALL_PROGRESS.stage \notin {"idle", "complete"})
    /\ INSTALL_PROGRESS.error = None

\* C35 witness: a simulated install has reached the complete record.
C35_Witness ==
    /\ mode # "prod"
    /\ INSTALL_PROGRESS.stage = "complete"
    /\ INSTALL_PROGRESS.progress = 100
    /\ ~INSTALL_PROGRESS.running

\* C35 witness: a simulated install is at its first record, running with
\* progress 0.
C35_WitnessStarting ==
    /\ mode = "devserver"
    /\ INSTALL_PROGRESS.running
    /\ INSTALL_PROGRESS.progress = 0



\* An install has been started: a task or an install process was launched.
SomeInstallStarted == launched > 0 \/ \E t \in Threads : status[t] # "none"

\* C36: a status poll answered after an install-start has answered success
\* returns neither the idle record nor the complete record of an earlier
\* install: it shows the install that was started.
C36_PollAfterStartShowsInstall ==
    [][(Poll /\ SomeInstallStarted)
          => /\ lastResp'.body # IdleProgress
             /\ lastResp'.body.complete
                   => \A t \in Threads : status[t] # "none" => Finished(t)]_vars



\* The request is one the account handler rejects: its envelope does not
\* open, or a check of the handler fails.
AccountRejected(body) ==
    \/ decrypt_if_needed(body).raised
    \/ ValidateAccount(decrypt_if_needed(body).fields) # None

\* C37: an account request that is rejected for a failed decryption, a
\* missing username or password or a password the policy refuses is
\* answered with a failure and leaves every file as it was.
C37_RejectedAccountWritesNothing ==
    [][\A body \in AccountBodies :
          (handle_account_setup(body) /\ AccountRejected(body))
              => (~lastResp'.success /\ files' = files)]_vars

\* C37 witness: an account exists on disk and a later request has been
\* rejected for its password.
C37_Witness ==
    /\ lastResp.kind = "account"
    /\ ~lastResp.success
    /\ lastResp.error = "Password must contain at least 1 number"
    /\ files["CONFIG_FILE"] # {}



\* C38: in production the record in memory is never modified by a start and
\* stays the idle record, and a poll answers the content of the progress
\* file when the file exists and parses, the idle record of memory otherwise.
C38_ProductionReadsTheFile ==
    /\ [](mode = "prod" => INSTALL_PROGRESS = IdleProgress)
    /\ [][(mode = "prod" /\ Poll)
              => lastResp'.body =
                    IF PROGRESS_FILE.exists /\ PROGRESS_FILE.parses
                    THEN PROGRESS_FILE.content
                    ELSE IdleProgress]_vars

\* C38 witness: after a start in production the installer has written a
\* record other than the idle one, and a poll has answered it while the
\* memory still holds the idle record.
C38_Witness ==
    /\ mode = "prod"
    /\ launched > 0
    /\ PROGRESS_FILE.exists /\ PROGRESS_FILE.parses
    /\ PROGRESS_FILE.content # IdleProgress
    /\ lastResp.kind = "poll"
    /\ lastResp.body = PROGRESS_FILE.content
    /\ INSTALL_PROGRESS = IdleProgress

\* C38 witness: the file exists and does not parse, and a poll has answered
\* the idle record.
C38_WitnessUnreadable ==
    /\ mode = "prod"
    /\ launched > 0
    /\ PROGRESS_FILE.exists /\ ~PROGRESS_FILE.parses
    /\ lastResp.kind = "poll"
    /\ lastResp.body = IdleProgress


\* The secrets of an install request other than the account password.
OtherSecrets(f) == {f.wifiPassword, f.encryptionPassword, f.rootPassword} \ {""}

\* C39: an install-start writes none of the other secrets of its request
\* (WiFi password, disk-encryption password, root password) in cleartext to
\* a file.
C39_NoOtherSecretInCleartext ==
    [][\A body \in Bodies :
          handle_install_start(body)
              => \A path \in Paths :
                    files'[path] # files[path]
                        => OtherSecrets(decrypt_if_needed(body).fields)
                               \cap {kv[2] : kv \in files'[path]} = {}]_vars

====
